---- MODULE Spec2Model ----
(***************************************************************************)
(* Model of the two Textual apps of dannystewart/csview:                   *)
(*   CSVViewer          (src/main.py)                                      *)
(*   SignInAnalysisApp  (src/signins_tui.py)                               *)
(* Both are single-threaded: every event handler runs to completion.  The  *)
(* two apps are driven by the same event sequence over the same dataset;   *)
(* the variables of SignInAnalysisApp carry the prefix si_.                *)
(*                                                                         *)
(* Strings that the code inspects (cell values, filter texts) are          *)
(* sequences of character codes, so that strip(), lower(), `in` and the    *)
(* string ordering are computed and not assumed.  Column names are only    *)
(* ever compared for equality and used as dict keys; they are TLA+ strings.*)
(***************************************************************************)
EXTENDS Integers, Sequences, FiniteSets, TLC

\* ------------------------------------------------------------------ bounds
\* Longest dataset (number of data lines of the CSV file).
MaxRows == 3

\* Most patterns global_filter holds, all columns together: an apply-filter
\* event that would store more is not taken.
MaxPatterns == 2

\* ----------------------------------------------------------- Python values
\* Python's None (csv.DictReader's restval for a short line). Character codes
\* are positive, so this is no string.
None == << -1 >>

\* The string "" (the default of row.get, the initial selected_column text).
EmptyStr == << >>

\* str(None)
NoneStr == << 78, 111, 110, 101 >>

\* The literal "(no value)" of update_details.
NoValue == << 40, 110, 111, 32, 118, 97, 108, 117, 101, 41 >>

\* str(x) for a cell value.
PyStr(v) == IF v = None THEN NoneStr ELSE v

\* str.lower() on one character (ASCII range of the model's alphabet).
LowerChar(c) == IF c >= 65 /\ c <= 90 THEN c + 32 ELSE c

\* str.lower()
Lower(s) == [i \in DOMAIN s |-> LowerChar(s[i])]

\* str.isspace() on one character.
IsSpace(c) == c = 32 \/ (c >= 9 /\ c <= 13)

\* Strip without the trimming: the text as typed.
StripNothing(s) == s

\* str.strip(): drops leading and trailing whitespace.
Strip(s) ==
    LET keep == {i \in DOMAIN s : ~IsSpace(s[i])}
        lo == CHOOSE i \in keep : \A j \in keep : i <= j
        hi == CHOOSE i \in keep : \A j \in keep : j <= i
    IN  IF keep = {} THEN EmptyStr ELSE SubSeq(s, lo, hi)

\* Python's `p in s` on strings: p occurs in s as a contiguous substring.
StrIn(p, s) ==
    \E off \in 0..(Len(s) - Len(p)) : SubSeq(s, off + 1, off + Len(p)) = p

\* Python's `a < b` on strings: lexicographic by code point.
StrLess(a, b) ==
    \E i \in 1..(Len(b)) :
        /\ i <= Len(a) + 1
        /\ \A j \in 1..(i - 1) : a[j] = b[j]
        /\ (i = Len(a) + 1 \/ a[i] < b[i])

\* ------------------------------------------------------------ dict helpers
\* {} : the empty dict.
EmptyDict == [k \in {} |-> {}]

\* d[k] = v
DictSet(d, k, v) == [x \in (DOMAIN d) \cup {k} |-> IF x = k THEN v ELSE d[x]]

\* del d[k]
DictDel(d, k) == [x \in (DOMAIN d) \ {k} |-> d[x]]

\* row.get(col, "")
RowGet(row, col) == IF col \in DOMAIN row THEN row[col] ELSE EmptyStr

\* ------------------------------------------------------------------ inputs
\* The header of the CSV file (csv.DictReader's fieldnames).
Columns == {"status", "region"}

\* The data lines a file of the model may hold: "An,a" and the short line
\* "n", whose missing trailing field DictReader fills with None.
RowUniverse ==
    { [status |-> << 65, 110 >>, region |-> << 97 >>],
      [status |-> << 110 >>,     region |-> None] }

RECURSIVE SeqsUpTo(_, _)
\* All the sequences over S of length at most n.
SeqsUpTo(S, n) ==
    IF n = 0 THEN { << >> }
    ELSE LET shorter == SeqsUpTo(S, n - 1)
         IN  shorter \cup { Append(s, x) : s \in shorter, x \in S }

\* list(reader): the datasets of the model.
Datasets == SeqsUpTo(RowUniverse, MaxRows)

\* The texts the filter input may hold when a filter is applied:
\* "", " ", " a " and "N".
Texts == { EmptyStr, << 32 >>, << 32, 97, 32 >>, << 78 >> }

\* The keys of the DataTable's columns (setup_data_table).
SortKeys == {"value", "count", "percentage"}

VARIABLES
    all_rows,            \* CSVViewer.all_rows
    filtered_rows,       \* CSVViewer.filtered_rows
    global_filter,       \* CSVViewer.global_filter : column -> set of patterns
    selected_column,     \* CSVViewer.selected_column
    sort_column,         \* CSVViewer.sort_column ("" until first set)
    sort_reverse,        \* CSVViewer.sort_reverse
    sorted_data,         \* update_details' list(filtered_data.items()), as last built
    table_data,          \* rows of CSVViewer's details table, in display order
    toggled,             \* history: a header has been clicked in this session
    last,                \* history: the event handled last (see Handled)
    si_filtered_rows,    \* SignInAnalysisApp.filtered_rows
    si_global_filter,    \* SignInAnalysisApp.global_filter : column -> set of values
    si_selected_column,  \* SignInAnalysisApp.selected_column
    si_sort_column,      \* SignInAnalysisApp.sort_column
    si_sort_reverse,     \* SignInAnalysisApp.sort_reverse
    si_table_data        \* rows of SignInAnalysisApp's details table

vars == << all_rows, filtered_rows, global_filter, selected_column, sort_column,
           sort_reverse, sorted_data, table_data, toggled, last, si_filtered_rows,
           si_global_filter,
           si_selected_column, si_sort_column, si_sort_reverse, si_table_data >>

\* ------------------------------------------------- CSVViewer (src/main.py)
\* The pattern test of apply_global_filter:
\* filter_value.lower() in str(row.get(col, "")).lower()
PatternMatches(filter_value, row, col) ==
    StrIn(Lower(filter_value), Lower(PyStr(RowGet(row, col))))

\* RowPasses with one filtered column enough: any(...) over the columns.
RowPassesAnyColumn(row, gf) ==
    \E col \in DOMAIN gf : \E filter_value \in gf[col] :
        PatternMatches(filter_value, row, col)

\* RowPasses with a filtered column the row does not have skipped.
RowPassesSkipsMissing(row, gf) ==
    \A col \in (DOMAIN gf) \cap (DOMAIN row) : \E filter_value \in gf[col] :
        PatternMatches(filter_value, row, col)

\* The row test of apply_global_filter: all(any(...) for col, values in items()).
RowPasses(row, gf) ==
    \A col \in DOMAIN gf : \E filter_value \in gf[col] :
        PatternMatches(filter_value, row, col)

\* The rows apply_global_filter stores in filtered_rows.
FilterRows(rows, gf) ==
    IF DOMAIN gf = {} THEN rows
    ELSE SelectSeq(rows, LAMBDA row : RowPasses(row, gf))

\* FilterAfterApply that takes a pattern out again when it is applied a
\* second time.
FilterAfterApplyToggles(gf, col, text) ==
    LET filter_text == Strip(text)
        old == IF col \in DOMAIN gf THEN gf[col] ELSE {}
    IN  IF filter_text # EmptyStr
        THEN DictSet(gf, col, IF filter_text \in old THEN old \ {filter_text}
                                                     ELSE old \cup {filter_text})
        ELSE IF col \in DOMAIN gf THEN DictDel(gf, col) ELSE gf

\* FilterAfterApply with the column's set replaced by the new pattern.
FilterAfterApplyReplaces(gf, col, text) ==
    LET filter_text == Strip(text)
    IN  IF filter_text # EmptyStr
        THEN DictSet(gf, col, {filter_text})
        ELSE IF col \in DOMAIN gf THEN DictDel(gf, col) ELSE gf

\* FilterAfterApply with the whole dict cleared on an empty text.
FilterAfterApplyClearsAll(gf, col, text) ==
    LET filter_text == Strip(text)
    IN  IF filter_text # EmptyStr
        THEN DictSet(gf, col,
                     (IF col \in DOMAIN gf THEN gf[col] ELSE {}) \cup {filter_text})
        ELSE EmptyDict

\* FilterAfterApply with the column's set emptied, in place of the entry
\* removed, on an empty text.
FilterAfterApplyEmptiesSet(gf, col, text) ==
    LET filter_text == Strip(text)
    IN  IF filter_text # EmptyStr
        THEN DictSet(gf, col,
                     (IF col \in DOMAIN gf THEN gf[col] ELSE {}) \cup {filter_text})
        ELSE IF col \in DOMAIN gf THEN DictSet(gf, col, {}) ELSE gf

\* The global_filter apply_filter leaves, for the input text and the selected
\* column.
FilterAfterApply(gf, col, text) ==
    LET filter_text == Strip(text)
    IN  IF filter_text # EmptyStr
        THEN DictSet(gf, col,
                     (IF col \in DOMAIN gf THEN gf[col] ELSE {}) \cup {filter_text})
        ELSE IF col \in DOMAIN gf THEN DictDel(gf, col) ELSE gf

\* Normalize that replaces the empty string only.
NormalizeEmptyOnly(value) == IF value = EmptyStr THEN NoValue ELSE value

\* update_details: value = "(no value)" if value in (None, "") else value
Normalize(value) == IF value = None \/ value = EmptyStr THEN NoValue ELSE value

\* Increment that counts the first occurrence of a value only.
IncrementDropsRepeat(items, value) ==
    IF \E i \in DOMAIN items : items[i].key = value
    THEN items
    ELSE Append(items, [key |-> value, n |-> 1])

\* filtered_data[value] += 1 on a dict kept as the sequence of its items in
\* insertion order.
Increment(items, value) ==
    IF \E i \in DOMAIN items : items[i].key = value
    THEN [i \in DOMAIN items |->
            IF items[i].key = value
            THEN [key |-> value, n |-> items[i].n + 1]
            ELSE items[i]]
    ELSE Append(items, [key |-> value, n |-> 1])

RECURSIVE CountValues(_, _, _)
\* The counting loop of update_details over the first k rows; the result is
\* list(filtered_data.items()).
CountValues(rows, col, k) ==
    IF k = 0 THEN << >>
    ELSE Increment(CountValues(rows, col, k - 1), Normalize(RowGet(rows[k], col)))

RECURSIVE SumCounts(_, _)
\* sum(count for _, count in sorted_data), over the first k items.
SumCounts(items, k) ==
    IF k = 0 THEN 0 ELSE SumCounts(items, k - 1) + items[k].n

\* Percentage with the quotient cut off after the second decimal.
PercentageTruncated(count, total) ==
    IF total > 0 THEN (count * 10000) \div total ELSE 0

\* The number shown by f"{(count / total) * 100:.2f}%" and read back by
\* float(x[2][:-1]), in hundredths of a percent: the quotient rounded to the
\* nearest hundredth, an exact half going to the even neighbour.
Percentage(count, total) ==
    IF total > 0
    THEN LET q == (count * 10000) \div total
             r == (count * 10000) % total
         IN  IF 2 * r < total THEN q
             ELSE IF 2 * r > total THEN q + 1
             ELSE IF q % 2 = 0 THEN q ELSE q + 1
    ELSE 0

\* table_data before sorting: (str(value), count, percentage_str) per item.
TableRows(items) ==
    LET total_filtered_count == SumCounts(items, Len(items))
    IN  [i \in DOMAIN items |->
            [value |-> PyStr(items[i].key),
             count |-> items[i].n,
             percentage |-> Percentage(items[i].n, total_filtered_count)]]

\* key(a) < key(b) for the sort key update_details uses for sort_column.
KeyLess(a, b, column) ==
    IF column = "value" THEN StrLess(a.value, b.value)
    ELSE IF column = "count" THEN a.count < b.count
    ELSE a.percentage < b.percentage

\* a must come before b in the sorted list whatever their positions were.
Precedes(a, b, column, reverse) ==
    IF reverse THEN KeyLess(b, a, column) ELSE KeyLess(a, b, column)

\* InsertStable without the stability: e goes in front of the elements that
\* compare equal to it.
InsertUnstable(sorted, e, column, reverse) ==
    LET ahead == {i \in DOMAIN sorted : ~Precedes(sorted[i], e, column, reverse)}
        pos == IF ahead = {} THEN Len(sorted) + 1
               ELSE CHOOSE i \in ahead : \A j \in ahead : i <= j
    IN  SubSeq(sorted, 1, pos - 1) \o << e >> \o SubSeq(sorted, pos, Len(sorted))

\* One step of the stable sort: e goes in front of the first element it must
\* precede, behind every element that compares equal to it.
InsertStable(sorted, e, column, reverse) ==
    LET ahead == {i \in DOMAIN sorted : Precedes(e, sorted[i], column, reverse)}
        pos == IF ahead = {} THEN Len(sorted) + 1
               ELSE CHOOSE i \in ahead : \A j \in ahead : i <= j
    IN  SubSeq(sorted, 1, pos - 1) \o << e >> \o SubSeq(sorted, pos, Len(sorted))

RECURSIVE SortPrefix(_, _, _, _)
\* list.sort(key=..., reverse=...) of the first k rows: stable for both
\* directions (equal keys keep their relative order).
SortPrefix(rows, k, column, reverse) ==
    IF k = 0 THEN << >>
    ELSE InsertStable(SortPrefix(rows, k - 1, column, reverse), rows[k], column, reverse)

\* The sort of update_details; a sort_column that is none of the three keys
\* leaves the list as built.
SortTable(rows, column, reverse) ==
    IF column \in SortKeys THEN SortPrefix(rows, Len(rows), column, reverse)
    ELSE rows

\* update_details: "Set default sorting if not specified".
DefaultSortColumn(column) == IF column = "" THEN "count" ELSE column

\* DefaultSortReverse without the default direction.
DefaultSortReverseKept(column, reverse) == reverse

DefaultSortReverse(column, reverse) == IF column = "" THEN TRUE ELSE reverse

\* The rows the details table holds after update_details.
DetailRows(rows, col, column, reverse) ==
    SortTable(TableRows(CountValues(rows, col, Len(rows))), column, reverse)

\* The fields of the CSVViewer object.
CsvState ==
    [all_rows |-> all_rows, filtered_rows |-> filtered_rows,
     global_filter |-> global_filter, selected_column |-> selected_column,
     sort_column |-> sort_column, sort_reverse |-> sort_reverse,
     sorted_data |-> sorted_data, table_data |-> table_data]

\* CSVViewer.update_details
update_details(st) ==
    LET column == DefaultSortColumn(st.sort_column)
        reverse == DefaultSortReverse(st.sort_column, st.sort_reverse)
    IN  [st EXCEPT !.sort_column = column,
                   !.sort_reverse = reverse,
                   !.sorted_data = CountValues(st.filtered_rows, st.selected_column,
                                               Len(st.filtered_rows)),
                   !.table_data = DetailRows(st.filtered_rows, st.selected_column,
                                             column, reverse)]

\* apply_global_filter without the reset on an empty global_filter.
ApplyGlobalFilterNoReset(st) ==
    IF st.global_filter = EmptyDict THEN st
    ELSE [st EXCEPT !.filtered_rows = FilterRows(st.all_rows, st.global_filter)]

\* CSVViewer.apply_global_filter
apply_global_filter(st) ==
    [st EXCEPT !.filtered_rows = FilterRows(st.all_rows, st.global_filter)]

\* CSVViewer.apply_filter, the filter input holding text.
apply_filter(st, text) ==
    update_details(apply_global_filter(
        [st EXCEPT !.global_filter =
            FilterAfterApply(st.global_filter, st.selected_column, text)]))

\* on_clear_filters without the reset of filtered_rows.
ClearKeepsRows(st) == update_details([st EXCEPT !.global_filter = EmptyDict])

\* CSVViewer.on_clear_filters
on_clear_filters(st) ==
    update_details([st EXCEPT !.global_filter = EmptyDict,
                              !.filtered_rows = st.all_rows])

\* on_tree_node_selected with the sort put back to its default.
SelectResetsSort(st, c) ==
    update_details([st EXCEPT !.selected_column = c, !.sort_column = ""])

\* on_tree_node_selected without the call of update_details.
SelectWithoutUpdate(st, c) == [st EXCEPT !.selected_column = c]

\* CSVViewer.on_tree_node_selected, the node's label being c.
on_tree_node_selected(st, c) ==
    update_details([st EXCEPT !.selected_column = c])

\* ToggledReverse without the flip: always ascending.
ToggledReverseNeverFlips(column, reverse, column_key) == FALSE

\* ToggledReverse with descending as the direction of a newly chosen key.
ToggledReverseDescending(column, reverse, column_key) ==
    IF column = column_key THEN ~reverse ELSE TRUE

\* The sort direction on_data_table_header_selected sets for column_key.
ToggledReverse(column, reverse, column_key) ==
    IF column = column_key THEN ~reverse ELSE FALSE

\* CSVViewer.on_data_table_header_selected
on_data_table_header_selected(st, column_key) ==
    update_details([st EXCEPT
        !.sort_column = column_key,
        !.sort_reverse = ToggledReverse(st.sort_column, st.sort_reverse, column_key)])

\* A press of the Apply button: Textual hands one Button.Pressed to the
\* @on(Button.Pressed, "#apply_filter") handler on_apply_filter and to
\* on_button_pressed, and each calls apply_filter.
on_apply_pressed(st, text) == apply_filter(apply_filter(st, text), text)

\* The state st is stored into the CSVViewer variables.
CsvBecomes(st) ==
    /\ all_rows' = st.all_rows
    /\ filtered_rows' = st.filtered_rows
    /\ global_filter' = st.global_filter
    /\ selected_column' = st.selected_column
    /\ sort_column' = st.sort_column
    /\ sort_reverse' = st.sort_reverse
    /\ sorted_data' = st.sorted_data
    /\ table_data' = st.table_data

\* --------------------------------- SignInAnalysisApp (src/signins_tui.py)
\* The keys of self.data[col] after load_data: str(value) of every row's
\* value for col; no key for a column the file does not have.
SiDataKeys(rows, col) ==
    { PyStr(rows[i][col]) : i \in {j \in DOMAIN rows : col \in DOMAIN rows[j]} }

\* The set apply_filter stores for the column: the keys of self.data[col]
\* that contain filter_text.
SiFilteredValues(rows, col, filter_text) ==
    { value \in SiDataKeys(rows, col) : StrIn(filter_text, Lower(PyStr(value))) }

\* SiFilterAfterApply that stores no entry for a text no value contains.
SiFilterAfterApplyDropsEmpty(gf, rows, col, text) ==
    LET filter_text == Lower(text)
        filtered_values == SiFilteredValues(rows, col, filter_text)
    IN  IF filter_text # EmptyStr /\ filtered_values # {}
        THEN DictSet(gf, col, filtered_values)
        ELSE IF col \in DOMAIN gf THEN DictDel(gf, col) ELSE gf

\* The global_filter SignInAnalysisApp.apply_filter leaves.
SiFilterAfterApply(gf, rows, col, text) ==
    LET filter_text == Lower(text)
    IN  IF filter_text # EmptyStr
        THEN DictSet(gf, col, SiFilteredValues(rows, col, filter_text))
        ELSE IF col \in DOMAIN gf THEN DictDel(gf, col) ELSE gf

\* The row test of SignInAnalysisApp.apply_global_filter.
SiRowPasses(row, gf) == \A col \in DOMAIN gf : RowGet(row, col) \in gf[col]

\* The rows SignInAnalysisApp.apply_global_filter stores in filtered_rows.
SiFilterRows(rows, gf) ==
    IF DOMAIN gf = {} THEN rows
    ELSE SelectSeq(rows, LAMBDA row : SiRowPasses(row, gf))

RECURSIVE SiCountValues(_, _, _)
\* The counting loop of SignInAnalysisApp.update_details: the raw value is
\* the key.
SiCountValues(rows, col, k) ==
    IF k = 0 THEN << >>
    ELSE Increment(SiCountValues(rows, col, k - 1), RowGet(rows[k], col))

\* The fields of the SignInAnalysisApp object.
SiState ==
    [all_rows |-> all_rows, filtered_rows |-> si_filtered_rows,
     global_filter |-> si_global_filter, selected_column |-> si_selected_column,
     sort_column |-> si_sort_column, sort_reverse |-> si_sort_reverse,
     table_data |-> si_table_data]

\* SignInAnalysisApp.update_details
si_update_details(st) ==
    LET column == DefaultSortColumn(st.sort_column)
        reverse == DefaultSortReverse(st.sort_column, st.sort_reverse)
    IN  [st EXCEPT !.sort_column = column,
                   !.sort_reverse = reverse,
                   !.table_data =
                       SortTable(TableRows(SiCountValues(st.filtered_rows,
                                     st.selected_column, Len(st.filtered_rows))),
                                 column, reverse)]

\* SignInAnalysisApp.apply_global_filter
si_apply_global_filter(st) ==
    [st EXCEPT !.filtered_rows = SiFilterRows(st.all_rows, st.global_filter)]

\* SignInAnalysisApp.apply_filter
si_apply_filter(st, text) ==
    si_update_details(si_apply_global_filter(
        [st EXCEPT !.global_filter =
            SiFilterAfterApply(st.global_filter, st.all_rows,
                               st.selected_column, text)]))

\* SignInAnalysisApp.on_clear_filters
si_on_clear_filters(st) ==
    si_update_details([st EXCEPT !.global_filter = EmptyDict,
                                 !.filtered_rows = st.all_rows])

\* SignInAnalysisApp.on_tree_node_selected
si_on_tree_node_selected(st, c) ==
    si_update_details([st EXCEPT !.selected_column = c])

\* A press of the Apply button in SignInAnalysisApp: on_apply_filter and
\* on_button_pressed both run apply_filter.
si_on_apply_pressed(st, text) == si_apply_filter(si_apply_filter(st, text), text)

\* The state st is stored into the SignInAnalysisApp variables.
SiBecomes(st) ==
    /\ si_filtered_rows' = st.filtered_rows
    /\ si_global_filter' = st.global_filter
    /\ si_selected_column' = st.selected_column
    /\ si_sort_column' = st.sort_column
    /\ si_sort_reverse' = st.sort_reverse
    /\ si_table_data' = st.table_data

\* ------------------------------------------------------------ state machine
\* Both apps after on_mount: the file is loaded, the table has its three
\* columns and no row, nothing is selected, filtered or sorted.
Init ==
    /\ all_rows \in Datasets
    /\ filtered_rows = all_rows
    /\ global_filter = EmptyDict
    /\ selected_column = ""
    /\ sort_column = ""
    /\ sort_reverse = FALSE
    /\ sorted_data = << >>
    /\ table_data = << >>
    /\ toggled = FALSE
    /\ last = [event |-> "mount", flag |-> FALSE]
    /\ si_filtered_rows = all_rows
    /\ si_global_filter = EmptyDict
    /\ si_selected_column = ""
    /\ si_sort_column = ""
    /\ si_sort_reverse = FALSE
    /\ si_table_data = << >>

siVars == << si_filtered_rows, si_global_filter, si_selected_column,
            si_sort_column, si_sort_reverse, si_table_data >>

RECURSIVE SumSizes(_, _)
\* The number of patterns gf holds in the columns of cols.
SumSizes(gf, cols) ==
    IF cols = {} THEN 0
    ELSE LET c == CHOOSE x \in cols : TRUE
         IN  Cardinality(gf[c]) + SumSizes(gf, cols \ {c})

\* The apply-filter events the model takes: those that leave at most
\* MaxPatterns patterns in CSVViewer's global_filter.
WithinBound(text) ==
    LET gf == FilterAfterApply(global_filter, selected_column, text)
    IN  SumSizes(gf, DOMAIN gf) <= MaxPatterns

\* The history of the step: the event that is handled and, in flag, what the
\* state before it was: for "sort", the clicked key was sort_column; for
\* "submit" and "press", the selected column had an entry in global_filter;
\* for "clear", global_filter was not empty.
Handled(event, flag) == last' = [event |-> event, flag |-> flag]

\* select-column: a node of the column tree is selected.
SelectColumn(c) ==
    /\ CsvBecomes(on_tree_node_selected(CsvState, c))
    /\ UNCHANGED << toggled, siVars >>
    /\ Handled("select", FALSE)

\* toggle-sort: a header of the details table is clicked.
ToggleSort(column_key) ==
    /\ CsvBecomes(on_data_table_header_selected(CsvState, column_key))
    /\ toggled' = TRUE
    /\ UNCHANGED siVars
    /\ Handled("sort", sort_column = column_key)

\* apply-filter by Enter in the filter input (on_filter_submitted).
SubmitFilter(text) ==
    /\ WithinBound(text)
    /\ CsvBecomes(apply_filter(CsvState, text))
    /\ UNCHANGED << toggled, siVars >>
    /\ Handled("submit", selected_column \in DOMAIN global_filter)

\* apply-filter by the Apply button.
PressApply(text) ==
    /\ WithinBound(text)
    /\ CsvBecomes(on_apply_pressed(CsvState, text))
    /\ UNCHANGED << toggled, siVars >>
    /\ Handled("press", selected_column \in DOMAIN global_filter)

\* clear-filters: the Clear button (on_button_pressed -> on_clear_filters).
ClearFilters ==
    /\ CsvBecomes(on_clear_filters(CsvState))
    /\ UNCHANGED << toggled, siVars >>
    /\ Handled("clear", global_filter # EmptyDict)

\* CSVViewer alone.
Next ==
    \/ \E c \in Columns : SelectColumn(c)
    \/ \E column_key \in SortKeys : ToggleSort(column_key)
    \/ \E text \in Texts : SubmitFilter(text)
    \/ \E text \in Texts : PressApply(text)
    \/ ClearFilters

Spec == Init /\ [][Next]_vars

\* The same select-column event handled by both apps.
BothSelectColumn(c) ==
    /\ CsvBecomes(on_tree_node_selected(CsvState, c))
    /\ SiBecomes(si_on_tree_node_selected(SiState, c))
    /\ UNCHANGED toggled
    /\ Handled("select", FALSE)

\* The same Enter in the filter input handled by both apps.
BothSubmitFilter(text) ==
    /\ WithinBound(text)
    /\ CsvBecomes(apply_filter(CsvState, text))
    /\ SiBecomes(si_apply_filter(SiState, text))
    /\ UNCHANGED toggled
    /\ Handled("submit", selected_column \in DOMAIN global_filter)

\* The same press of the Apply button handled by both apps.
BothPressApply(text) ==
    /\ WithinBound(text)
    /\ CsvBecomes(on_apply_pressed(CsvState, text))
    /\ SiBecomes(si_on_apply_pressed(SiState, text))
    /\ UNCHANGED toggled
    /\ Handled("press", selected_column \in DOMAIN global_filter)

\* The same press of the Clear button handled by both apps.
BothClearFilters ==
    /\ CsvBecomes(on_clear_filters(CsvState))
    /\ SiBecomes(si_on_clear_filters(SiState))
    /\ UNCHANGED toggled
    /\ Handled("clear", global_filter # EmptyDict)

\* CSVViewer and SignInAnalysisApp on the same dataset and the same sequence
\* of select-column, apply-filter and clear-filters events.
NextBoth ==
    \/ \E c \in Columns : BothSelectColumn(c)
    \/ \E text \in Texts : BothSubmitFilter(text)
    \/ \E text \in Texts : BothPressApply(text)
    \/ BothClearFilters

SpecBoth == Init /\ [][NextBoth]_vars

\* ------------------------------------------ files that hold the sentinel text
\* The data lines "(no value)" (short: region is None) and "," (both fields
\* empty): the first has the text of the sentinel as its status.
SentinelRows ==
    { [status |-> NoValue,  region |-> None],
      [status |-> EmptyStr, region |-> EmptyStr] }

\* list(reader) for the files made of these lines.
SentinelDatasets == SeqsUpTo(SentinelRows, MaxRows)

\* The state after construction and on_mount over such a file.
InitSentinel ==
    /\ all_rows \in SentinelDatasets
    /\ filtered_rows = all_rows
    /\ global_filter = EmptyDict
    /\ selected_column = ""
    /\ sort_column = ""
    /\ sort_reverse = FALSE
    /\ sorted_data = << >>
    /\ table_data = << >>
    /\ toggled = FALSE
    /\ last = [event |-> "mount", flag |-> FALSE]
    /\ si_filtered_rows = all_rows
    /\ si_global_filter = EmptyDict
    /\ si_selected_column = ""
    /\ si_sort_column = ""
    /\ si_sort_reverse = FALSE
    /\ si_table_data = << >>

\* CSVViewer over the files that hold the sentinel text.
SpecSentinel == InitSentinel /\ [][Next]_vars

\* ------------------------------------- the table step of update_details alone
\* update_details from sorted_data = list(filtered_data.items()) on (lines
\* 278-310) is a function of the items, sort_column and sort_reverse. Here it
\* is applied to items lists that stand for columns of many rows and many
\* values; the rows behind the counts are not held in the state, and the
\* row variables stay at the empty dataset.

\* The most values an items list of this specification has.
MaxEntries == 6

\* The count of a frequent value.
BigCount == 40000

\* The counts of the values.
Counts == { 1, 2, BigCount }

\* The i-th value of the column: "a", "b", ...
Letter(i) == << 96 + i >>

\* The items lists: len distinct values, first met in ascending or in
\* descending order of value, each with a count.
ItemTables ==
    UNION { { [i \in 1..len |->
                  [key |-> Letter(IF up THEN i ELSE len + 1 - i), n |-> f[i]]] :
              f \in [1..len -> Counts], up \in BOOLEAN } :
            len \in 0..MaxEntries }

\* The items are built; no table has been sorted yet.
InitItems ==
    /\ sorted_data \in ItemTables
    /\ all_rows = << >>
    /\ filtered_rows = << >>
    /\ global_filter = EmptyDict
    /\ selected_column = ""
    /\ sort_column = ""
    /\ sort_reverse = FALSE
    /\ table_data = << >>
    /\ toggled = FALSE
    /\ last = [event |-> "mount", flag |-> FALSE]
    /\ si_filtered_rows = << >>
    /\ si_global_filter = EmptyDict
    /\ si_selected_column = ""
    /\ si_sort_column = ""
    /\ si_sort_reverse = FALSE
    /\ si_table_data = << >>

\* A header click, then the table step of update_details on the items.
SortItems(column_key) ==
    /\ sort_column' = column_key
    /\ sort_reverse' = ToggledReverse(sort_column, sort_reverse, column_key)
    /\ table_data' = SortTable(TableRows(sorted_data), sort_column', sort_reverse')
    /\ toggled' = TRUE
    /\ Handled("sort", sort_column = column_key)
    /\ UNCHANGED << all_rows, filtered_rows, global_filter, selected_column,
                    sorted_data, siVars >>

NextItems == \E column_key \in SortKeys : SortItems(column_key)

SpecItems == InitItems /\ [][NextItems]_vars

\* ------------------------------------------------------------------ claims
\* update_details has run: an event has been handled and the details table
\* shows a distribution (sort_column is "" only until the first call).
Displayed == sort_column # ""

\* The text of a cell in the data model of the specification: a missing
\* column and a missing field both read as the empty string.
CellText(row, col) ==
    IF col \in DOMAIN row /\ row[col] # None THEN row[col] ELSE EmptyStr

\* p is a case-insensitive substring of s.
ContainsIgnoringCase(s, p) == StrIn(Lower(p), Lower(s))

\* Some row of rows is the row r.
Holds(rows, r) == \E j \in DOMAIN rows : rows[j] = r

\* C1: with a non-empty global_filter, a row of all_rows is in filtered_rows
\* if and only if for every filtered column at least one of the column's
\* patterns is a case-insensitive substring of the row's value for the
\* column (AND across columns, OR within a column).
C1_FilterIsAndOfOrs ==
    global_filter # EmptyDict =>
        \A i \in DOMAIN all_rows :
            Holds(filtered_rows, all_rows[i]) <=>
                \A col \in DOMAIN global_filter :
                    \E p \in global_filter[col] :
                        ContainsIgnoringCase(CellText(all_rows[i], col), p)

RECURSIVE DisplayedTotal(_, _)
\* The sum of the counts of the first k rows of the table t.
DisplayedTotal(t, k) == IF k = 0 THEN 0 ELSE t[k].count + DisplayedTotal(t, k - 1)

\* C2: the counts of the displayed frequency table sum to the number of
\* rows of filtered_rows, whatever the filter and the selected column.
C2_CountsSumToFilteredRows ==
    Displayed => DisplayedTotal(table_data, Len(table_data)) = Len(filtered_rows)

\* C2's case: a filter has removed a row and the table of the selected column
\* counts the two rows that are left.
C2_Witness ==
    /\ Displayed /\ global_filter # EmptyDict /\ selected_column \in Columns
    /\ Len(all_rows) = 3 /\ Len(filtered_rows) = 2
    /\ Len(table_data) = 1 /\ table_data[1].count = 2

\* The table t is in the order of the sort key: no row comes after a row it
\* must precede.
InSortOrder(t, column, reverse) ==
    \A i, j \in DOMAIN t : i < j => ~Precedes(t[j], t[i], column, reverse)

\* C3: nothing stale is displayed: after every handled event filtered_rows is
\* the current global_filter applied to all_rows, and the table is the
\* aggregation of the selected column over filtered_rows in the order of the
\* current sort_column and sort_reverse.
C3_NoStaleResult ==
    /\ filtered_rows = FilterRows(all_rows, global_filter)
    /\ Displayed =>
        /\ table_data = DetailRows(filtered_rows, selected_column,
                                   sort_column, sort_reverse)
        /\ InSortOrder(table_data, sort_column, sort_reverse)

\* C3's case: a column is selected while a filter that removes rows is set
\* and a sort key has been chosen.
C3_Witness ==
    /\ last.event = "select" /\ toggled /\ global_filter # EmptyDict
    /\ Len(filtered_rows) < Len(all_rows) /\ table_data # << >>

\* C4: clear-filters leaves global_filter empty and filtered_rows equal to
\* all_rows, the table is the distribution of the selected column over all
\* the rows, and a second clear-filters changes nothing.
C4_ClearRestores ==
    [][(last'.event = "clear" /\ ClearFilters) =>
        /\ global_filter' = EmptyDict
        /\ filtered_rows' = all_rows
        /\ all_rows' = all_rows
        /\ table_data' = DetailRows(all_rows, selected_column,
                                    sort_column', sort_reverse')
        /\ on_clear_filters(CsvState') = CsvState']_vars

\* C4's case: clear-filters has been handled in a state that had filters.
C4_Witness ==
    /\ last.event = "clear" /\ last.flag
    /\ Len(all_rows) = 3 /\ selected_column \in Columns

\* s is a subsequence of t: the elements of s are elements of t at
\* increasing positions.
IsSubsequence(s, t) ==
    \E f \in [DOMAIN s -> DOMAIN t] :
        /\ \A i, j \in DOMAIN s : i < j => f[i] < f[j]
        /\ \A i \in DOMAIN s : s[i] = t[f[i]]

\* C5: filtered_rows is always a subsequence of all_rows in the original
\* order, and when global_filter is empty after an apply-filter or
\* clear-filters event filtered_rows is all_rows, row for row.
C5_OrderPreserved ==
    /\ IsSubsequence(filtered_rows, all_rows)
    /\ (global_filter = EmptyDict /\ last.event \in {"submit", "press", "clear"})
          => filtered_rows = all_rows

\* C5's case: an apply-filter event with an empty text has removed the last
\* entry of global_filter, over three rows.
C5_Witness ==
    /\ last.event \in {"submit", "press"} /\ last.flag
    /\ global_filter = EmptyDict /\ Len(all_rows) = 3

\* The text is empty once its whitespace is trimmed.
IsBlank(text) == \A i \in DOMAIN text : IsSpace(text[i])

\* C6: from every reachable state, an apply-filter event (Enter or the
\* Apply button) whose text is empty after trimming adds no pattern and
\* removes the selected column's entry from global_filter; the entries of
\* the other columns stay, and without an entry nothing changes.
C6_BlankTextRemovesEntry ==
    \A text \in Texts : IsBlank(text) =>
        \A st \in {apply_filter(CsvState, text), on_apply_pressed(CsvState, text)} :
            /\ DOMAIN st.global_filter = DOMAIN global_filter \ {selected_column}
            /\ \A c \in DOMAIN st.global_filter :
                   st.global_filter[c] = global_filter[c]

\* C6's case: an apply-filter event has removed the selected column's entry
\* and another column is still filtered.
C6_Witness ==
    /\ last.event \in {"submit", "press"} /\ last.flag
    /\ selected_column \notin DOMAIN global_filter
    /\ global_filter # EmptyDict

\* C7 as claimed: in both apps every column of global_filter maps to a
\* non-empty set.
C7_NoEmptySetInEitherApp ==
    /\ \A c \in DOMAIN global_filter : global_filter[c] # {}
    /\ \A c \in DOMAIN si_global_filter : si_global_filter[c] # {}

\* C7, amended: in CSVViewer every column of global_filter maps to a
\* non-empty set of patterns; in SignInAnalysisApp a column maps to a set of
\* that column's values, which may be empty, and then no row is shown.
C7_NoEmptySetInCsvViewer ==
    /\ \A c \in DOMAIN global_filter : global_filter[c] # {}
    /\ \A c \in DOMAIN si_global_filter :
        /\ si_global_filter[c] \subseteq SiDataKeys(all_rows, c)
        /\ si_global_filter[c] = {} => si_filtered_rows = << >>

\* C7's case: after the same events CSVViewer holds a pattern for a column
\* of the file and SignInAnalysisApp holds the empty set for it.
C7_Witness ==
    \E c \in Columns :
        /\ c \in DOMAIN global_filter /\ global_filter[c] # {}
        /\ c \in DOMAIN si_global_filter /\ si_global_filter[c] = {}
        /\ all_rows # << >>

\* C8 as claimed: toggle-sort on the active key (count by default) flips the
\* direction; on another key it makes the key active, descending, or
\* ascending when the new key is value.
C8_OtherKeyDescending ==
    [][\A k \in SortKeys : (last'.event = "sort" /\ ToggleSort(k)) =>
        /\ sort_column' = k
        /\ IF DefaultSortColumn(sort_column) = k
           THEN sort_reverse' = ~DefaultSortReverse(sort_column, sort_reverse)
           ELSE sort_reverse' \/ k = "value"]_vars

\* C8, amended: toggle-sort on the key sort_column holds flips the
\* direction; on any other key (value, count or percentage) it makes the key
\* active with the direction ascending.
C8_OtherKeyAscending ==
    [][\A k \in SortKeys : (last'.event = "sort" /\ ToggleSort(k)) =>
        /\ sort_column' = k
        /\ sort_reverse' = (IF sort_column = k THEN ~sort_reverse ELSE FALSE)]_vars

\* C8's case: toggle-sort has moved the sort from another key to count, and
\* the direction is ascending.
C8_Witness ==
    /\ last.event = "sort" /\ ~last.flag
    /\ sort_column = "count" /\ ~sort_reverse

\* C9: while no toggle-sort event has occurred, every displayed distribution
\* is ordered by count, descending.
C9_DefaultCountDescending ==
    (Displayed /\ ~toggled) =>
        /\ sort_column = "count" /\ sort_reverse
        /\ \A i, j \in DOMAIN table_data :
               i < j => table_data[i].count >= table_data[j].count

\* C9's case: no header was clicked, and the value met first in
\* filtered_rows has the smaller count and is displayed second.
C9_Witness ==
    /\ ~toggled /\ Len(table_data) = 2
    /\ table_data[1].count > table_data[2].count
    /\ PyStr(Normalize(RowGet(filtered_rows[1], selected_column)))
           = table_data[2].value

\* The rows a and b of the table have the same primary sort key.
SameKey(a, b, column) == ~KeyLess(a, b, column) /\ ~KeyLess(b, a, column)

\* The position in filtered_rows of the first row displayed as value.
FirstSeen(value) ==
    CHOOSE i \in DOMAIN filtered_rows :
        /\ PyStr(Normalize(RowGet(filtered_rows[i], selected_column))) = value
        /\ \A j \in 1..(i - 1) :
               PyStr(Normalize(RowGet(filtered_rows[j], selected_column))) # value

\* C10 as claimed: rows of the table with equal primary sort keys are in
\* ascending order of their values.
C10_TiesAscendingByValue ==
    Displayed =>
        \A i, j \in DOMAIN table_data :
            (i < j /\ SameKey(table_data[i], table_data[j], sort_column)) =>
                StrLess(table_data[i].value, table_data[j].value)

\* C10, amended: rows of the table with equal primary sort keys are in the
\* order in which their values are first met in filtered_rows, for every
\* key and direction; no two rows have the same value.
C10_TiesInEncounterOrder ==
    Displayed =>
        \A i, j \in DOMAIN table_data : i < j =>
            /\ table_data[i].value # table_data[j].value
            /\ SameKey(table_data[i], table_data[j], sort_column) =>
                   FirstSeen(table_data[i].value) < FirstSeen(table_data[j].value)

\* C10's case: two values tie on the count under a descending count sort and
\* the greater value string is displayed first.
C10_Witness ==
    /\ sort_column = "count" /\ sort_reverse /\ Len(table_data) = 2
    /\ table_data[1].count = table_data[2].count
    /\ StrLess(table_data[2].value, table_data[1].value)

\* C11: from every reachable state with the active sort key k, two
\* toggle-sort(k) events in a row restore sort_column and sort_reverse and
\* leave the table in exactly the order it had.
C11_DoubleToggleRestores ==
    \A k \in SortKeys : sort_column = k =>
        LET st == on_data_table_header_selected(
                      on_data_table_header_selected(CsvState, k), k)
        IN  /\ st.sort_column = sort_column
            /\ st.sort_reverse = sort_reverse
            /\ st.table_data = table_data

\* C11's case: the value key has been flipped to descending and flipped back
\* by a click on the active key, over a table of two entries.
C11_Witness ==
    /\ last.event = "sort" /\ last.flag
    /\ sort_column = "value" /\ ~sort_reverse /\ Len(table_data) = 2

\* C12 as claimed: while the selected column is no column of the dataset,
\* the displayed table is empty, whatever the number of filtered rows.
C12_AbsentColumnEmptyTable ==
    (Displayed /\ selected_column \notin Columns) => table_data = << >>

\* C13 as claimed: a row that has no value for a filtered column (the key is
\* absent, or the field is missing from a short line) is never in
\* filtered_rows.
C13_MissingValueNeverMatches ==
    \A col \in DOMAIN global_filter : \A i \in DOMAIN filtered_rows :
        /\ col \in DOMAIN filtered_rows[i]
        /\ filtered_rows[i][col] # None

\* No row of the dataset has the column col.
NoRowHas(col) == \A i \in DOMAIN all_rows : col \notin DOMAIN all_rows[i]

\* C14: a filter stored for a column that no row has, such as the empty
\* column name of a filter applied before any column is selected, makes
\* filtered_rows empty and the table of every column empty; apply-filter
\* stores the pattern for such a column as for any other.
C14_UnknownColumnFilter ==
    /\ \A col \in DOMAIN global_filter : NoRowHas(col) =>
        /\ filtered_rows = << >>
        /\ Displayed => table_data = << >>
        /\ \A c \in Columns \cup {""} :
               DetailRows(filtered_rows, c, sort_column, sort_reverse) = << >>
    /\ \A text \in Texts : (NoRowHas(selected_column) /\ ~IsBlank(text)) =>
        LET st == apply_filter(CsvState, text)
        IN  /\ selected_column \in DOMAIN st.global_filter
            /\ \E p \in st.global_filter[selected_column] :
                   StrIn(p, text) /\ p # EmptyStr

\* C14's case: a filter was applied before any column was selected, a column
\* of the file has been selected since, and the table is empty over three
\* rows.
C14_Witness ==
    /\ "" \in DOMAIN global_filter /\ selected_column \in Columns
    /\ Len(all_rows) = 3 /\ filtered_rows = << >> /\ table_data = << >>

\* The value the table shows for a row: the sentinel for an empty or a
\* missing value of the selected column, the text of the value otherwise.
Shown(row) ==
    IF CellText(row, selected_column) = EmptyStr \/ row[selected_column] = None
    THEN NoValue
    ELSE row[selected_column]

\* The number of the filtered rows that satisfy Test.
CountRows(Test(_)) ==
    Cardinality({ i \in DOMAIN filtered_rows : Test(filtered_rows[i]) })

\* C15 as claimed: the sentinel's count is the number of filtered rows whose
\* value is empty or missing, the count of every other displayed value is the
\* number of filtered rows with that raw value, and no count is 0.
C15_SentinelCountsEmptyOnly ==
    (Displayed /\ selected_column \in Columns) =>
        \A i \in DOMAIN table_data :
            LET e == table_data[i]
                Empty(row) == row[selected_column] \in {EmptyStr, None}
                Raw(row) == row[selected_column] = e.value
            IN  /\ e.count > 0
                /\ e.count = IF e.value = NoValue THEN CountRows(Empty)
                                                  ELSE CountRows(Raw)

\* C15: every displayed value's count is the number of filtered rows shown
\* under it, where a row is shown under the sentinel if its value is empty,
\* missing or the sentinel's own text, and under its raw value otherwise;
\* every filtered row is shown under one entry and no count is 0.
C15_CountsOfShownValues ==
    (Displayed /\ selected_column \in Columns) =>
        /\ \A i \in DOMAIN table_data :
               LET e == table_data[i]
                   Under(row) == Shown(row) = e.value
               IN  e.count > 0 /\ e.count = CountRows(Under)
        /\ \A i, j \in DOMAIN table_data :
               table_data[i].value = table_data[j].value => i = j
        /\ \A i \in DOMAIN filtered_rows : \E j \in DOMAIN table_data :
               table_data[j].value = Shown(filtered_rows[i])

\* C15's case: the status column holds the sentinel's text in one row and
\* nothing in two others, and the table has the one entry "(no value)": 3.
C15_Witness ==
    /\ Displayed /\ selected_column = "status"
    /\ Len(filtered_rows) = 3 /\ Len(table_data) = 1
    /\ table_data[1].value = NoValue /\ table_data[1].count = 3
    /\ \E i \in DOMAIN filtered_rows : filtered_rows[i].status = NoValue
    /\ \E i \in DOMAIN filtered_rows : filtered_rows[i].status = EmptyStr

\* C16 as claimed: the order of the table under the percentage key is the
\* order under the count key in the same direction.
C16_PercentageOrderIsCountOrder ==
    sort_column = "percentage" =>
        table_data = SortTable(TableRows(sorted_data), "count", sort_reverse)

RECURSIVE SumPercentages(_, _)
\* The sum of the percentages shown in the first k rows of t, in hundredths.
SumPercentages(t, k) ==
    IF k = 0 THEN 0 ELSE SumPercentages(t, k - 1) + t[k].percentage

\* The distance of the sum of the displayed percentages from 100, in
\* hundredths.
SumError ==
    LET sum == SumPercentages(table_data, Len(table_data))
    IN  IF sum >= 10000 THEN sum - 10000 ELSE 10000 - sum

\* C17 as claimed: the displayed percentages of a non-empty table sum to 100
\* within 0.01.
C17_SumWithinOneHundredth == table_data # << >> => SumError <= 1

\* C17: the displayed percentages of a non-empty table of n entries sum to
\* 100 within 0.005 * n, each being off by at most half a hundredth.
C17_SumWithinRounding == table_data # << >> => 2 * SumError <= Len(table_data)

\* C17's case: six values of one row each, shown as 16.67% each: 100.02.
C17_Witness ==
    /\ Len(table_data) = 6
    /\ \A i \in DOMAIN table_data : table_data[i].percentage = 1667
    /\ SumError = 2

\* C18: select-column(c) makes c the selected column, leaves global_filter
\* and filtered_rows as they are, and keeps a sort key and direction that
\* have been set.
C18_SelectKeepsFilterAndSort ==
    [][\A c \in Columns : (last'.event = "select" /\ SelectColumn(c)) =>
        /\ selected_column' = c
        /\ global_filter' = global_filter
        /\ filtered_rows' = filtered_rows
        /\ Displayed => (sort_column' = sort_column /\ sort_reverse' = sort_reverse)]_vars

\* C18's case: a column is selected after a header click chose value,
\* descending, and while a filter is set.
C18_Witness ==
    /\ last.event = "select" /\ toggled /\ global_filter # EmptyDict
    /\ sort_column = "value" /\ sort_reverse

\* The set of the entries of the table t.
Entries(t) == { t[i] : i \in DOMAIN t }

\* C19 as claimed: toggle-sort leaves global_filter, filtered_rows and the
\* selected column as they are, and the set of entries displayed after it is
\* the set displayed before it.
C19_ToggleKeepsEntries ==
    [][\A k \in SortKeys : (last'.event = "sort" /\ ToggleSort(k)) =>
        /\ global_filter' = global_filter
        /\ filtered_rows' = filtered_rows
        /\ selected_column' = selected_column
        /\ Entries(table_data') = Entries(table_data)]_vars

\* C20: an apply-filter event changes no entry of global_filter but the one
\* of the selected column and does not change the selected column; no event
\* changes all_rows.
C20_ApplyTouchesSelectedColumnOnly ==
    [][/\ all_rows' = all_rows
       /\ last'.event \in {"submit", "press"} =>
           /\ selected_column' = selected_column
           /\ (DOMAIN global_filter') \ {selected_column}
                  = (DOMAIN global_filter) \ {selected_column}
           /\ \A c \in (DOMAIN global_filter) \ {selected_column} :
                  global_filter'[c] = global_filter[c]]_vars

\* C20's case: an apply-filter event has acted on a column that had an
\* entry while the other column of the file has one too.
C20_Witness ==
    /\ last.event \in {"submit", "press"} /\ last.flag
    /\ selected_column \in Columns
    /\ (DOMAIN global_filter) \ {selected_column} # {}
    /\ Len(all_rows) = 3

\* C21: from every reachable state, apply_filter run twice in a row with the
\* same text and selected column (one press of the Apply button) leaves
\* every field of the app, global_filter, filtered_rows and the table among
\* them, as apply_filter run once does, for empty and non-empty text.
C21_ApplyIsIdempotent ==
    \A text \in Texts :
        on_apply_pressed(CsvState, text) = apply_filter(CsvState, text)

\* C21's case: a press of the Apply button has acted on a column that had no
\* entry and has one now, with a table of rows left.
C21_Witness ==
    /\ last.event = "press" /\ ~last.flag
    /\ selected_column \in DOMAIN global_filter
    /\ global_filter[selected_column] # {}
    /\ table_data # << >>

\* The filter and the view of the state st.
FilterView(st) == << st.global_filter, st.filtered_rows >>

\* Select column c, then apply the filter text.
ApplyOn(st, c, text) == apply_filter(on_tree_node_selected(st, c), text)

\* Of two different apply-filter events, the one taken as the first of the
\* pair, so that each pair of events is taken once.
TakenFirst(c1, t1, c2, t2) ==
    IF c1 = c2 THEN StrLess(t1, t2) ELSE c1 = "status"

\* C22: from every reachable state, two different apply-filter events with
\* non-empty patterns, each on its column, give the same global_filter and
\* the same filtered_rows in either order; every permutation of a sequence
\* of such events is a chain of such swaps.
C22_ApplyOrderIrrelevant ==
    \A c1, c2 \in Columns : \A t1, t2 \in Texts :
        (~IsBlank(t1) /\ ~IsBlank(t2) /\ TakenFirst(c1, t1, c2, t2)) =>
            LET ab == ApplyOn(ApplyOn(CsvState, c1, t1), c2, t2)
                ba == ApplyOn(ApplyOn(CsvState, c2, t2), c1, t1)
            IN  FilterView(ab) = FilterView(ba)

\* C22's case: patterns have been applied on both columns, one after the
\* other, and rows of a file of three are left.
C22_Witness ==
    /\ last.event \in {"submit", "press"} /\ ~last.flag
    /\ DOMAIN global_filter = Columns
    /\ Len(all_rows) = 3 /\ filtered_rows # << >>

\* C23: from every reachable state, an apply-filter event with a non-empty
\* pattern adds no row to filtered_rows when the selected column has no
\* entry in global_filter, and removes none when it has one.
C23_ApplyIsMonotone ==
    \A text \in Texts : ~IsBlank(text) =>
        LET st == apply_filter(CsvState, text)
        IN  IF selected_column \in DOMAIN global_filter
            THEN IsSubsequence(filtered_rows, st.filtered_rows)
            ELSE IsSubsequence(st.filtered_rows, filtered_rows)

\* C23's case: a second pattern has been applied on the region column, and
\* the two together keep both kinds of row, which neither keeps alone.
C23_Witness ==
    /\ last.event \in {"submit", "press"} /\ last.flag
    /\ selected_column = "region" /\ "region" \in DOMAIN global_filter
    /\ Cardinality(global_filter["region"]) = 2
    /\ Len(all_rows) = 3 /\ filtered_rows = all_rows
    /\ \E i, j \in DOMAIN all_rows : all_rows[i] # all_rows[j]

\* C24 as claimed: after every event of the same sequence on the same
\* dataset, SignInAnalysisApp and CSVViewer hold the same filtered_rows.
C24_SameFilteredRows == si_filtered_rows = filtered_rows

\* C24: after every event of the same sequence on the same dataset, the
\* filtered_rows of SignInAnalysisApp is a subsequence of the filtered_rows
\* of CSVViewer, and the two are the same while SignInAnalysisApp's
\* global_filter is empty.
C24_SiRowsWithinCsvRows ==
    /\ IsSubsequence(si_filtered_rows, filtered_rows)
    /\ si_global_filter = EmptyDict => si_filtered_rows = filtered_rows

\* C24's case: after an apply-filter event in both apps SignInAnalysisApp has
\* filtered every row out while CSVViewer keeps some.
C24_Witness ==
    /\ last.event \in {"submit", "press"}
    /\ si_global_filter # EmptyDict
    /\ si_filtered_rows = << >> /\ filtered_rows # << >>

====
